---- MODULE Spec2Model ----
(***************************************************************************)
(* MH-C2C (Metropolis-Hastings Critique-to-Consensus), src/mh_c_2_c.py.    *)
(*                                                                         *)
(* One run of mh_c2c as a state machine: the round-0 generation loop, the  *)
(* round loop with its three LLM calls per chain, the Metropolis gate, the *)
(* convergence test and the final max().                                   *)
(*                                                                         *)
(* Numbers.  Scores are the integers -len(text).  beta and eps are floats  *)
(* in the source; here they are integers counting thousandths (beta = 1000 *)
(* is 1.0).  A probability (the threshold alpha, a uniform draw) is held   *)
(* as its negated natural logarithm in thousandths, "nl": 1.0 is 0,        *)
(* exp(-50) is 50000, and the float 0.0 is the value Zero, larger than the *)
(* nl of every positive double.  u < alpha is then nl(u) > nl(alpha).      *)
(***************************************************************************)
EXTENDS Integers, Sequences, FiniteSets, TLC

\* ------------------------------------------------------------- bounds
MaxChains == 2
MaxRounds == 2
MaxTexts == 3

\* ------------------------------------------------------------- values
\* what an LLM call can return: the first MaxTexts texts over {a, b}, shortest first
TextList ==
    << <<>>, <<"a">>, <<"b">>, <<"a", "a">>, <<"a", "b">>, <<"b", "a">>, <<"b", "b">>,
       <<"a", "a", "a">> >>
Texts == {TextList[k] : k \in 1..MaxTexts}

None == "None"

\* beta, in thousandths: negative, zero, the default 1.0, 50.0 and 800.0
Betas == {-800000, 0, 1000, 50000, 800000}
\* the values of beta whole runs are made with
RunBetas == {-800000, 0, 1000, 50000}
\* eps, in thousandths: negative, zero, the default 0.001 and 1.5
Epsilons == {-1000, 0, 1, 1500}

\* math.exp(x) is 0.0 for x <= -745.134 and raises OverflowError for x >= 709.783
ExpUnderflow == 745133
ExpOverflow == 709783
\* the nl of the float 0.0
Zero == 1000000
\* uniform draws of random.random(): 0.0, 2^-53 (the smallest positive one),
\* 0.5 and 0.999..., each as ceil(-1000 ln u)
Draws == {Zero, 36737, 694, 1}

\* the roles argument: None, or a list of 0, 1 or 2 role labels
RoleArgs ==
    {[given |-> FALSE, list |-> <<>>]}
        \cup {[given |-> TRUE, list |-> [j \in 1..k |-> j]] : k \in {0, 1, 2}}

VARIABLES
    m, T, beta, eps, roles,   \* the arguments of mh_c2c
    chains,                   \* List[Chain]
    t, i,                     \* round number, index of the chain in the round (1-based)
    max_delta,                \* the round's movement tracker
    peers, prop, new_s,       \* locals of the chain step
    best,                     \* index of the chain returned, 0 while none
    pc,                       \* position in mh_c2c
    err,                      \* the exception that ended the run, None while none
    calls,                    \* history: LLM calls, score() calls and draws made
    moves,                    \* history: |dS| of the proposals accepted in round t
    converged,                \* history: the loop was left by the break of line 167
    gate,                     \* mh_accept called on its own: arguments, draw, result
    twin,                     \* a second, equally seeded run beside this one
    call,                     \* call_llm on its own: its attempts and its outcome
    cmp,                      \* EvaluationFramework.run_comparison on its own
    r2r                       \* generate_r2r_prompt on its own, with its caller's list

run == <<m, T, beta, eps, roles, chains, t, i, max_delta, peers, prop, new_s,
         best, pc, err, calls, moves, converged>>
periph == <<call, cmp, r2r>>
vars == <<run, gate, twin, periph>>
params == <<m, T, beta, eps, roles>>

\* ------------------------------------------------------------- helpers
Abs(x) == IF x < 0 THEN -x ELSE x
Max(a, b) == IF b > a THEN b ELSE a

\* return len(text)
score_len(text) == Len(text)

\* def score(text): return -len(text)
score(text) == -Len(text)

\* Chain(text, score)
Chain(text, s) == [text |-> text, score |-> s]

\* roles = roles or [f"Agent {i+1}" for i in range(m)]
EffRoles(r, n) ==
    IF ~r.given \/ Len(r.list) = 0 THEN [j \in 1..n |-> j] ELSE r.list

\* math.exp(x) for x = b*delta thousandths, as an nl
Exp(x) == IF x < -ExpUnderflow THEN Zero ELSE -x
ExpRaises(x) == x >= ExpOverflow

\* exp(-beta * |delta|) for every delta: a gain is gated like a loss
AlphaNoBranch(old_s, s, b) ==
    LET delta == s - old_s
    IN  Exp(-(b * (IF delta < 0 THEN -delta ELSE delta)))

\* math.exp(delta): beta is left out
AlphaNoBeta(old_s, s, b) ==
    LET delta == s - old_s
    IN  IF delta >= 0 THEN 0 ELSE Exp(1000 * delta)

\* math.exp(delta / beta): beta is used as a temperature
AlphaTemperature(old_s, s, b) ==
    LET delta == s - old_s
    IN  IF delta >= 0 THEN 0 ELSE Exp((1000000 * delta) \div b)

\* alpha = 1.0 if delta >= 0 else math.exp(beta * delta)
Alpha(old_s, s, b) ==
    LET delta == s - old_s
    IN  IF delta >= 0 THEN 0 ELSE Exp(b * delta)

AlphaRaises(old_s, s, b) ==
    LET delta == s - old_s
    IN  delta < 0 /\ ExpRaises(b * delta)

\* random.random() <= alpha
mh_accept_le(old_s, s, b, u) == u >= Alpha(old_s, s, b)

\* random.random() > alpha
mh_accept_gt(old_s, s, b, u) == u < Alpha(old_s, s, b)

\* random.random() < alpha
mh_accept(old_s, s, b, u) == u > Alpha(old_s, s, b)

\* a later item of equal key replaces the first
GreaterEq(a, b) == a >= b

\* max() keeps its first item and replaces it by a later one only if that
\* one's key is greater
Greater(a, b) == a > b

\* max(chains, key=lambda c: c.score) over chains 1..n: the index it returns
RECURSIVE MaxUpTo(_, _)
MaxUpTo(cs, n) ==
    IF n = 1 THEN 1
    ELSE LET k == MaxUpTo(cs, n - 1)
         IN  IF Greater(cs[n].score, cs[k].score) THEN n ELSE k

\* return chains[0]
FirstChain(cs) == 1

ArgMax(cs) == MaxUpTo(cs, Len(cs))

\* the first len(chains) - 1 texts, whichever chain asks
PeersFirst(cs, k) == [j \in 1..(Len(cs) - 1) |-> cs[j].text]

\* [c.text for j, c in enumerate(chains) if j != i]
Peers(cs, k) == [j \in 1..(Len(cs) - 1) |-> IF j < k THEN cs[j].text ELSE cs[j + 1].text]

NoCalls == [gen |-> 0, self |-> 0, mut |-> 0, ref |-> 0, score |-> 0, draw |-> 0]
Bump(c, f) == [c EXCEPT ![f] = @ + 1]

\* the exception is caught and the best chain so far is returned
Swallow(e) ==
    /\ pc' = "select"
    /\ err' = e

\* an exception raised inside mh_c2c is not caught there: the run ends with it
Raise(e) ==
    /\ pc' = "error"
    /\ err' = e

\* for t in range(0, T + 1)
MoreRoundsFromZero(r, R) == r <= R

\* for t in range(1, T + 1): another round follows round t
MoreRounds(r, R) == r < R

Idle == [pc |-> "idle"]

\* call_llm, run_comparison and generate_r2r_prompt are not exercised
PeriphIdle ==
    /\ call = Idle
    /\ cmp = Idle
    /\ r2r = Idle

\* ----------------------------------------------- the sources of input
\* What call_llm and random.random() give a run.  A single run (twin.mode
\* "off") and the first of two equal runs ("lead") may get anything; the
\* second of two runs with the same oracles and the same seed ("follow") gets,
\* at its k-th step, what the first run got at its k-th step.
OkMark == <<"ok">>
FailMark == <<"fail">>
NoInput == <<"-">>
Single == [mode |-> "off"]

\* the text a returning call_llm gives where the text is used
LLMText == IF twin.mode = "follow" THEN {x \in Texts : x = twin.llm} ELSE Texts
\* a critique call returns
LLMOk == twin.mode = "follow" => twin.llm = OkMark
\* call_llm raises
LLMFail == twin.mode = "follow" => twin.llm = FailMark

\* a fresh draw for every run, whatever the seed
Unseeded == Draws

\* random.random(): the next draw of the seeded module-level generator
Uniform == IF twin.mode = "follow" THEN {u \in Draws : u = twin.u} ELSE Draws

\* the run whose turn it is has made a step that read x and u
Stepped(x, u) ==
    /\ twin.mode \in {"off", "lead", "follow"}
    /\ twin' = IF twin.mode = "lead"
                   THEN [twin EXCEPT !.mode = "led", !.llm = x, !.u = u]
               ELSE IF twin.mode = "follow"
                   THEN [twin EXCEPT !.mode = "followed"]
               ELSE twin

\* ------------------------------------------------------------- the run
\* the state of mh_c2c when it is entered
Start ==
    /\ chains = <<>>
    /\ t = 0
    /\ i = 0
    /\ max_delta = 0
    /\ peers = <<>>
    /\ prop = <<>>
    /\ new_s = 0
    /\ best = 0
    /\ pc = "init"
    /\ err = None
    /\ calls = NoCalls
    /\ moves = <<>>
    /\ converged = FALSE

InitRun ==
    /\ m \in 0..MaxChains
    /\ T \in -1..MaxRounds
    /\ beta \in RunBetas
    /\ eps \in Epsilons
    /\ roles \in RoleArgs
    /\ Start

Init ==
    /\ InitRun
    /\ gate = Idle
    /\ twin = Single
    /\ PeriphIdle

\* lines 139-141, one role: the call returns one of the texts ts
GenerateFrom(ts) ==
    /\ pc = "init"
    /\ Len(chains) < Len(EffRoles(roles, m))
    /\ \E init \in ts :
        /\ chains' = Append(chains, Chain(init, score(init)))
        /\ Stepped(init, 0)
    /\ calls' = Bump(Bump(calls, "gen"), "score")
    /\ UNCHANGED <<params, t, i, max_delta, peers, prop, new_s, best, pc, err,
                   moves, converged, gate, periph>>

\* lines 139-141 with the LLM free to return any text
Generate == GenerateFrom(LLMText)

\* lines 139-140, one role: call_llm raises
GenerateFails ==
    /\ pc = "init"
    /\ Len(chains) < Len(EffRoles(roles, m))
    /\ LLMFail
    /\ calls' = Bump(calls, "gen")
    /\ Raise("RetryError")
    /\ Stepped(FailMark, 0)
    /\ UNCHANGED <<params, chains, t, i, max_delta, peers, prop, new_s, best,
                   moves, converged, gate, periph>>

\* line 144: the for statement, entered after round 0 and after each round
\* that did not break
RoundStart ==
    /\ Stepped(NoInput, 0)
    /\ \/ pc = "init" /\ Len(chains) = Len(EffRoles(roles, m))
       \/ pc = "next"
    /\ IF MoreRounds(t, T)
       THEN /\ t' = t + 1
            /\ max_delta' = 0
            /\ moves' = <<>>
            /\ i' = 1
            /\ pc' = IF Len(chains) = 0 THEN "check" ELSE "self"
       ELSE /\ pc' = "select"
            /\ UNCHANGED <<t, max_delta, moves, i>>
    /\ UNCHANGED <<params, chains, peers, prop, new_s, best, err, calls, converged, gate, periph>>

\* lines 150-151: the peer list is built, then self_critique returns
SelfCritique ==
    /\ pc = "self"
    /\ peers' = Peers(chains, i)
    /\ LLMOk
    /\ calls' = Bump(calls, "self")
    /\ Stepped(OkMark, 0)
    /\ pc' = "mut"
    /\ UNCHANGED <<params, chains, t, i, max_delta, prop, new_s, best, err,
                   moves, converged, gate, periph>>

\* lines 150-151: self_critique raises
SelfCritiqueFails ==
    /\ pc = "self"
    /\ peers' = Peers(chains, i)
    /\ LLMFail
    /\ calls' = Bump(calls, "self")
    /\ Raise("RetryError")
    /\ Stepped(FailMark, 0)
    /\ UNCHANGED <<params, chains, t, i, max_delta, prop, new_s, best,
                   moves, converged, gate, periph>>

\* line 152: mutual_critique returns
MutualCritique ==
    /\ pc = "mut"
    /\ LLMOk
    /\ calls' = Bump(calls, "mut")
    /\ Stepped(OkMark, 0)
    /\ pc' = "ref"
    /\ UNCHANGED <<params, chains, t, i, max_delta, peers, prop, new_s, best, err,
                   moves, converged, gate, periph>>

\* line 152: mutual_critique raises
MutualCritiqueFails ==
    /\ pc = "mut"
    /\ LLMFail
    /\ calls' = Bump(calls, "mut")
    /\ Raise("RetryError")
    /\ Stepped(FailMark, 0)
    /\ UNCHANGED <<params, chains, t, i, max_delta, peers, prop, new_s, best,
                   moves, converged, gate, periph>>

\* lines 153-154: propose_refinement returns one of the texts ps, which is
\* scored
ProposeFrom(ps) ==
    /\ pc = "ref"
    /\ \E p \in ps :
        /\ prop' = p
        /\ new_s' = score(p)
        /\ Stepped(p, 0)
    /\ calls' = Bump(Bump(calls, "ref"), "score")
    /\ pc' = "gate"
    /\ UNCHANGED <<params, chains, t, i, max_delta, peers, best, err,
                   moves, converged, gate, periph>>

\* lines 153-154 with the LLM free to return any text
ProposeRefinement == ProposeFrom(LLMText)

\* line 153: propose_refinement raises
ProposeRefinementFails ==
    /\ pc = "ref"
    /\ LLMFail
    /\ calls' = Bump(calls, "ref")
    /\ Raise("RetryError")
    /\ Stepped(FailMark, 0)
    /\ UNCHANGED <<params, chains, t, i, max_delta, peers, prop, new_s, best,
                   moves, converged, gate, periph>>

\* the text is replaced and the score is left behind
ReplaceTextOnly(c, p, s) == Chain(p, c.score)

\* line 160 after line 159: chain.text, chain.score = prop, new_s
Replace(c, p, s) == Chain(p, s)

\* line 159 run after line 160: chain.score is new_s already
FoldAfterReplace(md, old_s, s) == Max(md, Abs(s - s))

\* every element of the list is one and the same Chain object
WriteAll(cs, k, c) == [j \in 1..Len(cs) |-> c]

\* line 160 assigns to the fields of chain, the k-th object of the list
Write(cs, k, c) == [cs EXCEPT ![k] = c]

\* max(max_delta, new_s - chain.score): abs() is left out
FoldSigned(md, old_s, s) == Max(md, s - old_s)

\* line 159: max_delta = max(max_delta, abs(new_s - chain.score))
Fold(md, old_s, s) == Max(md, Abs(s - old_s))

\* the draw is made only where the outcome depends on it
DrawsUsedLazy(old_s, s) == IF s - old_s >= 0 THEN 0 ELSE 1

\* lines 118-120: random.random() is called once on every path that returns
DrawsUsed(old_s, s) == 1

\* the round ends before its last chain is processed
AdvanceEarly ==
    IF i < Len(chains) - 1
    THEN i' = i + 1 /\ pc' = "self"
    ELSE i' = i /\ pc' = "check"

\* the for statement of line 149 after chain i: the next chain, or line 164
Advance ==
    IF i < Len(chains)
    THEN i' = i + 1 /\ pc' = "self"
    ELSE i' = i /\ pc' = "check"

\* lines 156-162 with the draw u: the gate, and the replacement on accept
Gate ==
    /\ pc = "gate"
    /\ ~AlphaRaises(chains[i].score, new_s, beta)
    /\ \E u \in Uniform :
        /\ Stepped(NoInput, u)
        /\ IF mh_accept(chains[i].score, new_s, beta, u)
           THEN /\ max_delta' = Fold(max_delta, chains[i].score, new_s)
                /\ chains' = Write(chains, i, Replace(chains[i], prop, new_s))
                /\ moves' = Append(moves, Abs(new_s - chains[i].score))
           ELSE UNCHANGED <<max_delta, chains, moves>>
    /\ calls' = [calls EXCEPT !.draw = @ + DrawsUsed(chains[i].score, new_s)]
    /\ Advance
    /\ UNCHANGED <<params, t, peers, prop, new_s, best, err, converged, gate, periph>>

\* line 119: math.exp raises OverflowError (beta < 0 and a lower score)
GateRaises ==
    /\ pc = "gate"
    /\ AlphaRaises(chains[i].score, new_s, beta)
    /\ Raise("OverflowError")
    /\ Stepped(NoInput, 0)
    /\ UNCHANGED <<params, chains, t, i, max_delta, peers, prop, new_s, best,
                   calls, moves, converged, gate, periph>>

\* max_delta > eps
Unsettled(md, e) == md * 1000 > e

\* max_delta <= eps
SettledLe(md, e) == md * 1000 <= e

\* line 164: max_delta < eps
Settled(md, e) == md * 1000 < e

\* lines 164-167: the convergence test that ends round t
RoundEnd ==
    /\ pc = "check"
    /\ Stepped(NoInput, 0)
    /\ IF Settled(max_delta, eps)
       THEN pc' = "select" /\ converged' = TRUE
       ELSE pc' = "next" /\ converged' = FALSE
    /\ UNCHANGED <<params, chains, t, i, max_delta, peers, prop, new_s, best, err,
                   calls, moves, gate, periph>>

\* lines 169-172: best = max(chains, ...); return best
Select ==
    /\ pc = "select"
    /\ Len(chains) > 0
    /\ best' = ArgMax(chains)
    /\ Stepped(NoInput, 0)
    /\ pc' = "done"
    /\ UNCHANGED <<params, chains, t, i, max_delta, peers, prop, new_s, err,
                   calls, moves, converged, gate, periph>>

\* line 169: max() of an empty list raises ValueError
SelectRaises ==
    /\ pc = "select"
    /\ Len(chains) = 0
    /\ Raise("ValueError")
    /\ Stepped(NoInput, 0)
    /\ UNCHANGED <<params, chains, t, i, max_delta, peers, prop, new_s, best,
                   calls, moves, converged, gate, periph>>

Next ==
    \/ Generate
    \/ GenerateFails
    \/ RoundStart
    \/ SelfCritique
    \/ SelfCritiqueFails
    \/ MutualCritique
    \/ MutualCritiqueFails
    \/ ProposeRefinement
    \/ ProposeRefinementFails
    \/ Gate
    \/ GateRaises
    \/ RoundEnd
    \/ Select
    \/ SelectRaises

Spec == Init /\ [][Next]_vars

\* line 172: return best, a Chain(text, score)
Returned == chains[best]

\* prompting_techniques.py line 219, after mh_c2c has returned to solve:
\* self.api_calls = self.m + (self.m * self.T * 3)
ApiCalls == m + (m * T * 3)

\* the arguments solve leaves to their defaults: eps = 1e-3, roles = None
CalledBySolve == eps = 1 /\ ~roles.given

\* ------------------------------------------------------- stub oracles
\* Runs whose LLM is a test double.  The refinement returns a text that
\* scores like the chain it revises.
ProposeSame == ProposeFrom({p \in LLMText : score(p) = chains[i].score})

InitSame ==
    /\ InitRun
    /\ eps > 0
    /\ T >= 1
    /\ gate = Idle
    /\ twin = Single
    /\ PeriphIdle

NextSame ==
    \/ Generate
    \/ GenerateFails
    \/ RoundStart
    \/ SelfCritique
    \/ SelfCritiqueFails
    \/ MutualCritique
    \/ MutualCritiqueFails
    \/ ProposeSame
    \/ ProposeRefinementFails
    \/ Gate
    \/ RoundEnd
    \/ Select
    \/ SelectRaises

SpecSame == InitSame /\ [][NextSame]_vars

\* The refinement returns the chain's text without its last character; the
\* initial texts have TrimRounds to TrimRounds + MaxSpare characters, so that
\* every call of the run has a character to remove.
MaxSpare == 2
TrimRounds == 3
Word(n) == [j \in 1..n |-> "a"]
LongTexts == {Word(n) : n \in TrimRounds..(TrimRounds + MaxSpare)}
Trim(text) == SubSeq(text, 1, Len(text) - 1)

GenerateLong == GenerateFrom(LongTexts)
ProposeTrim == ProposeFrom({Trim(chains[i].text)})

\* mh_c2c(task, m=2, T=3, beta=1.0, eps=0.01)
InitTrim ==
    /\ Start
    /\ m = 2
    /\ T = TrimRounds
    /\ beta = 1000
    /\ eps = 10
    /\ roles = [given |-> FALSE, list |-> <<>>]
    /\ gate = Idle
    /\ twin = Single
    /\ PeriphIdle

NextTrim ==
    \/ GenerateLong
    \/ GenerateFails
    \/ RoundStart
    \/ SelfCritique
    \/ SelfCritiqueFails
    \/ MutualCritique
    \/ MutualCritiqueFails
    \/ ProposeTrim
    \/ ProposeRefinementFails
    \/ Gate
    \/ RoundEnd
    \/ Select

SpecTrim == InitTrim /\ [][NextTrim]_vars

\* ------------------------------------------------- mh_accept on its own
\* scores -len(text) of texts of up to MaxGateLen characters
MaxGateLen == 2
GateScores == {-n : n \in 0..MaxGateLen}

GateArgs == [old_s : GateScores, new_s : GateScores, beta : Betas, u : Draws]

\* the run itself does not move while mh_accept is exercised on its own
InitGate ==
    /\ InitRun
    /\ m = 0 /\ T = 0 /\ beta = 1000 /\ eps = 1 /\ ~roles.given
    /\ \E a \in GateArgs : gate = [pc |-> "called", arg |-> a, done |-> <<>>]
    /\ twin = Single
    /\ PeriphIdle

\* lines 118-120: mh_accept returns
GateReturn ==
    /\ gate.pc = "called"
    /\ ~AlphaRaises(gate.arg.old_s, gate.arg.new_s, gate.arg.beta)
    /\ LET a == gate.arg
           r == [old_s |-> a.old_s, new_s |-> a.new_s, beta |-> a.beta, u |-> a.u,
                 alpha |-> Alpha(a.old_s, a.new_s, a.beta),
                 accept |-> mh_accept(a.old_s, a.new_s, a.beta, a.u)]
       IN  gate' = [pc |-> "returned", arg |-> a, done |-> Append(gate.done, r)]
    /\ UNCHANGED <<run, twin, periph>>

\* line 119: math.exp raises OverflowError
GateOverflow ==
    /\ gate.pc = "called"
    /\ AlphaRaises(gate.arg.old_s, gate.arg.new_s, gate.arg.beta)
    /\ gate' = [gate EXCEPT !.pc = "raised"]
    /\ UNCHANGED <<run, twin, periph>>

\* a second call, with other arguments, after a first one returned
GateAgain ==
    /\ gate.pc = "returned"
    /\ Len(gate.done) < 2
    /\ \E a \in GateArgs : gate' = [gate EXCEPT !.pc = "called", !.arg = a]
    /\ UNCHANGED <<run, twin, periph>>

NextGate ==
    \/ GateReturn
    \/ GateOverflow
    \/ GateAgain

SpecGate == InitGate /\ [][NextGate]_vars

\* ----------------------------------------------------- two equal runs
\* Two runs of mh_c2c with the same arguments, the same oracles and the same
\* seed, a step of the first followed by a step of the second.  The variables
\* hold the run whose turn it is and twin.other holds the run that waits.
RunState ==
    [m |-> m, T |-> T, beta |-> beta, eps |-> eps, roles |-> roles,
     chains |-> chains, t |-> t, i |-> i, max_delta |-> max_delta,
     peers |-> peers, prop |-> prop, new_s |-> new_s, best |-> best, pc |-> pc,
     err |-> err, calls |-> calls, moves |-> moves, converged |-> converged]

InitTwin ==
    /\ InitRun
    /\ beta \in {-800000, 1000, 50000}
    /\ eps \in {1, 1500}
    /\ ~roles.given
    /\ gate = Idle
    /\ twin = [mode |-> "lead", llm |-> NoInput, u |-> 0, other |-> RunState]
    /\ PeriphIdle

\* the run that stepped waits and the other run takes its turn
Switch ==
    /\ twin.mode \in {"led", "followed"}
    /\ m' = twin.other.m
    /\ T' = twin.other.T
    /\ beta' = twin.other.beta
    /\ eps' = twin.other.eps
    /\ roles' = twin.other.roles
    /\ chains' = twin.other.chains
    /\ t' = twin.other.t
    /\ i' = twin.other.i
    /\ max_delta' = twin.other.max_delta
    /\ peers' = twin.other.peers
    /\ prop' = twin.other.prop
    /\ new_s' = twin.other.new_s
    /\ best' = twin.other.best
    /\ pc' = twin.other.pc
    /\ err' = twin.other.err
    /\ calls' = twin.other.calls
    /\ moves' = twin.other.moves
    /\ converged' = twin.other.converged
    /\ twin' = [twin EXCEPT !.mode = IF @ = "led" THEN "follow" ELSE "lead",
                            !.other = RunState]
    /\ UNCHANGED <<gate, periph>>

NextTwin ==
    \/ Next
    \/ Switch

SpecTwin == InitTwin /\ [][NextTwin]_vars

\* ------------------------------------------ runs whose LLM calls return
\* A run in which no call_llm raises.  The interpreter keeps executing
\* mh_c2c: a step that can be taken is taken in the end.
NextReturning ==
    \/ Generate
    \/ RoundStart
    \/ SelfCritique
    \/ MutualCritique
    \/ ProposeRefinement
    \/ Gate
    \/ GateRaises
    \/ RoundEnd
    \/ Select
    \/ SelectRaises

\* mh_c2c(task, m, T, beta, eps) with the default roles
InitReturning ==
    /\ InitRun
    /\ beta \in {-800000, 1000}
    /\ eps \in {0, 1}
    /\ ~roles.given
    /\ gate = Idle
    /\ twin = Single
    /\ PeriphIdle

SpecReturning == InitReturning /\ [][NextReturning]_vars /\ WF_vars(NextReturning)

\* ------------------------------------------------- call_llm on its own
\* The tenacity decorator of call_llm: @retry(wait=wait_exponential(...),
\* stop=stop_after_attempt(6)).  An attempt is one run of the function body;
\* the waits between attempts take time and change nothing else.
StopAfterAttempt == 6

\* what an attempt can raise: an error worth retrying (a rate limit, a
\* timeout) or one that is not (a rejected key, an invalid request)
Failures == {"Transient", "Permanent"}

\* the decorator names no retry= condition: tenacity's default retries after
\* every exception
Retried(e) == TRUE

\* stop after one attempt more
StopLate(n) == n > StopAfterAttempt

\* stop_after_attempt(6): no attempt follows the n-th one
Stop(n) == n >= StopAfterAttempt

\* mh_c2c itself does not move while another function is exercised
RunIdle ==
    /\ InitRun
    /\ m = 0 /\ T = 0 /\ beta = 1000 /\ eps = 1 /\ ~roles.given
    /\ gate = Idle
    /\ twin = Single

InitCall ==
    /\ RunIdle
    /\ call = [pc |-> "attempt", tries |-> <<>>, text |-> <<>>, err |-> None]
    /\ cmp = Idle
    /\ r2r = Idle

\* lines 62-68: the request returns and call_llm returns its text
AttemptReturns ==
    /\ call.pc = "attempt"
    /\ \E x \in Texts :
        call' = [call EXCEPT !.pc = "returned", !.tries = Append(@, "ok"), !.text = x]
    /\ UNCHANGED <<run, gate, twin, cmp, r2r>>

\* lines 62-67: the request raises e; tenacity retries, or gives up with
\* RetryError, or lets an exception it does not retry pass
AttemptFails ==
    /\ call.pc = "attempt"
    /\ \E e \in Failures :
        LET tr == Append(call.tries, e)
        IN  call' = IF ~Retried(e)
                        THEN [call EXCEPT !.pc = "raised", !.tries = tr, !.err = e]
                    ELSE IF Stop(Len(tr))
                        THEN [call EXCEPT !.pc = "raised", !.tries = tr,
                                          !.err = "RetryError"]
                    ELSE [call EXCEPT !.tries = tr]
    /\ UNCHANGED <<run, gate, twin, cmp, r2r>>

NextCall ==
    \/ AttemptReturns
    \/ AttemptFails

SpecCall == InitCall /\ [][NextCall]_vars

\* ------------------------------------------- run_comparison on its own
\* EvaluationFramework.run_comparison, evaluation_framework.py lines 203-229:
\* nq questions (TEST_QUESTIONS) and nt techniques (self.techniques), a pair
\* being <<question index, technique index>>.  evaluate_single returns a
\* result or raises an Exception (from solve or from a metric).
MaxQuestions == 2
MaxTechniques == 3

\* the pairs in the order of the nested for statements of lines 209-212
AllPairs(nq, nt) ==
    [n \in 1..(nq * nt) |-> <<((n - 1) \div nt) + 1, ((n - 1) % nt) + 1>>]

\* the exception leaves run_comparison
Propagated == "raised"

\* lines 217-218: except Exception prints, and the inner loop goes on
Handled == "loop"

InitCmp ==
    /\ RunIdle
    /\ call = Idle
    /\ r2r = Idle
    /\ \E nq \in 0..MaxQuestions, nt \in 0..MaxTechniques :
        cmp = [pc |-> "loop", nq |-> nq, nt |-> nt, q |-> 1, k |-> 1,
               results |-> <<>>, report |-> <<>>, tried |-> <<>>, failed |-> {}]

\* lines 213-216: evaluate_single returns and its result is appended
EvaluateReturns ==
    /\ cmp.pc = "loop"
    /\ cmp.q <= cmp.nq
    /\ cmp.k <= cmp.nt
    /\ cmp' = [cmp EXCEPT !.results = Append(@, <<cmp.q, cmp.k>>),
                           !.tried = Append(@, <<cmp.q, cmp.k>>),
                           !.k = @ + 1]
    /\ UNCHANGED <<run, gate, twin, call, r2r>>

\* lines 213-218: evaluate_single raises
EvaluateRaises ==
    /\ cmp.pc = "loop"
    /\ cmp.q <= cmp.nq
    /\ cmp.k <= cmp.nt
    /\ cmp' = [cmp EXCEPT !.pc = Handled,
                           !.tried = Append(@, <<cmp.q, cmp.k>>),
                           !.failed = @ \cup {<<cmp.q, cmp.k>>},
                           !.k = @ + 1]
    /\ UNCHANGED <<run, gate, twin, call, r2r>>

\* line 209: the techniques are exhausted for this question
NextQuestion ==
    /\ cmp.pc = "loop"
    /\ cmp.q <= cmp.nq
    /\ cmp.k > cmp.nt
    /\ cmp' = [cmp EXCEPT !.q = @ + 1, !.k = 1]
    /\ UNCHANGED <<run, gate, twin, call, r2r>>

\* lines 220-229: the report is built from results and returned
Report ==
    /\ cmp.pc = "loop"
    /\ cmp.q > cmp.nq
    /\ cmp' = [cmp EXCEPT !.pc = "returned", !.report = cmp.results]
    /\ UNCHANGED <<run, gate, twin, call, r2r>>

NextCmp ==
    \/ EvaluateReturns
    \/ EvaluateRaises
    \/ NextQuestion
    \/ Report

SpecCmp == InitCmp /\ [][NextCmp]_vars

\* --------------------------------------- generate_r2r_prompt on its own
\* roast_to_refine.py lines 23-33.  A role the caller wrote is a positive
\* number, the default roles of lines 24-28 are 1, 2, 3 and the role
\* "Expert Agent k" appended by line 32 is -k.  list is the list object the
\* local name roles is bound to until line 33 rebinds it: the caller's own
\* list when one was passed, a new list when roles was None.
MaxRoles == 2
MaxPaths == 3
MaxR2RCalls == 2

DefaultRoles == <<1, 2, 3>>
CallerLists == {[j \in 1..n |-> j] : n \in 0..MaxRoles}

\* roles[:num_paths], num_paths >= 0
Slice(l, n) == SubSeq(l, 1, IF n < Len(l) THEN n ELSE Len(l))

InitR2R ==
    /\ RunIdle
    /\ call = Idle
    /\ cmp = Idle
    /\ \E g \in BOOLEAN, l \in CallerLists, n \in 0..MaxPaths :
        /\ ~g => l = <<>>
        /\ r2r = [pc |-> "adjust", given |-> g, passed |-> l, num_paths |-> n,
                  list |-> IF g THEN l ELSE DefaultRoles, caller |-> l,
                  roles |-> <<>>, made |-> 1]

\* lines 31-32: one turn of the while loop
AppendRole ==
    /\ r2r.pc = "adjust"
    /\ Len(r2r.list) < r2r.num_paths
    /\ LET l == Append(r2r.list, -(Len(r2r.list) + 1))
       IN  r2r' = [r2r EXCEPT !.list = l,
                              !.caller = IF r2r.given THEN l ELSE @]
    /\ UNCHANGED <<run, gate, twin, call, cmp>>

\* line 33 and the rest: roles = roles[:num_paths], the prompt is built
\* from it and returned
BuildPrompt ==
    /\ r2r.pc = "adjust"
    /\ Len(r2r.list) >= r2r.num_paths
    /\ r2r' = [r2r EXCEPT !.pc = "returned", !.roles = Slice(r2r.list, r2r.num_paths)]
    /\ UNCHANGED <<run, gate, twin, call, cmp>>

\* the caller calls again, with the same list and another num_paths
CallAgain ==
    /\ r2r.pc = "returned"
    /\ r2r.made < MaxR2RCalls
    /\ \E n \in 0..MaxPaths :
        r2r' = [r2r EXCEPT !.pc = "adjust", !.num_paths = n,
                           !.list = IF r2r.given THEN r2r.caller ELSE DefaultRoles,
                           !.roles = <<>>, !.made = @ + 1]
    /\ UNCHANGED <<run, gate, twin, call, cmp>>

NextR2R ==
    \/ AppendRole
    \/ BuildPrompt
    \/ CallAgain

SpecR2R == InitR2R /\ [][NextR2R]_vars

\* ------------------------------------------------------------- claims

\* C1: every chain's score is score() of the text the chain holds, in every
\* state of a run.
C1_ScoreIsScoreOfText ==
    \A k \in 1..Len(chains) : chains[k].score = -Len(chains[k].text)

\* a proposal with another score has been accepted and has replaced a chain
C1_Witness ==
    /\ pc = "check"
    /\ max_delta > 0
    /\ \E k \in 1..Len(chains) : chains[k].text = prop

\* C2: a call of mh_accept with new_s - old_s >= 0 returns True, whatever the
\* draw and whatever beta.
C2_NoLossAlwaysAccepted ==
    (gate.pc # "idle" /\ gate.arg.new_s - gate.arg.old_s >= 0)
        => /\ gate.pc # "raised"
           /\ gate.pc = "returned" => gate.done[Len(gate.done)].accept

\* an equal score, the largest beta and the draw closest to 1: accepted
C2_Witness ==
    /\ gate.pc = "returned"
    /\ gate.arg.new_s = gate.arg.old_s
    /\ gate.arg.u = 1
    /\ gate.arg.beta = 800000
    /\ gate.done[Len(gate.done)].accept

\* the returned calls of mh_accept with a lower new score and beta > 0
Losses == {k \in 1..Len(gate.done) :
              gate.done[k].new_s < gate.done[k].old_s /\ gate.done[k].beta > 0}
Loss(r) == r.old_s - r.new_s

\* two returned calls: the second has the same beta and a dS nearer to 0
NearerZero(r1, r2) == r1.beta = r2.beta /\ Loss(r2) < Loss(r1)
\* two returned calls: the second has the same dS and a larger beta
LargerBeta(r1, r2) == Loss(r1) = Loss(r2) /\ r1.beta < r2.beta

\* u < exp(-x), x > 0 in thousandths, in double precision: exp(-x) is 0.0,
\* which no draw is below, once x is past 745.133
BelowExp(u, x) == IF x > 745133 THEN FALSE ELSE u > x

\* C3 as stated: for dS < 0 and beta > 0 the call accepts exactly when the draw
\* is below exp(beta*dS), that threshold is strictly between 0 and 1, strictly
\* larger for a dS nearer to 0 and strictly smaller for a larger beta.
C3_Original ==
    /\ \A k \in Losses :
        LET r == gate.done[k]
        IN  /\ r.accept <=> BelowExp(r.u, r.beta * Loss(r))
            /\ r.alpha > 0 /\ r.alpha < Zero
    /\ \A j \in Losses, k \in Losses :
        /\ NearerZero(gate.done[j], gate.done[k])
              => gate.done[k].alpha < gate.done[j].alpha
        /\ LargerBeta(gate.done[j], gate.done[k])
              => gate.done[k].alpha > gate.done[j].alpha

\* C3 as amended: for dS < 0 and beta > 0 the call accepts exactly when the draw
\* is below the double exp(beta*dS); that threshold is in [0, 1], it is 0.0
\* exactly when beta*dS is below exp's underflow point, it is never smaller
\* for a dS nearer to 0 and never larger for a larger beta.
C3_ThresholdLaw ==
    /\ \A k \in Losses :
        LET r == gate.done[k]
        IN  /\ r.accept <=> BelowExp(r.u, r.beta * Loss(r))
            /\ r.alpha >= 0 /\ r.alpha <= Zero
            /\ r.alpha = Zero <=> r.beta * Loss(r) > 745133
    /\ \A j \in Losses, k \in Losses :
        /\ NearerZero(gate.done[j], gate.done[k])
              => gate.done[k].alpha <= gate.done[j].alpha
        /\ LargerBeta(gate.done[j], gate.done[k])
              => gate.done[k].alpha >= gate.done[j].alpha

\* beta = 50 first with dS = -2, rejected at the draw 2^-53, then with
\* dS = -1, accepted at the draw 0.0
C3_Witness ==
    /\ Len(gate.done) = 2
    /\ gate.done[1].beta = 50000 /\ gate.done[2].beta = 50000
    /\ Loss(gate.done[1]) = 2 /\ Loss(gate.done[2]) = 1
    /\ gate.done[1].u = 36737 /\ ~gate.done[1].accept
    /\ gate.done[2].u = Zero /\ gate.done[2].accept

\* C4: when the movement tested at the end of round t is strictly below eps the
\* loop is left, and once it is left no call, draw or chain write follows; when
\* the movement is >= eps and t < T the only step is into round t + 1, at its
\* first chain.
C4_StopsWhenSettled ==
    [][/\ (pc = "check" /\ max_delta * 1000 < eps) => pc' = "select"
       /\ pc \in {"select", "done", "error"}
            => (calls' = calls /\ chains' = chains /\ t' = t
                /\ pc' \in {"done", "error"})
       /\ (pc = "check" /\ ~(max_delta * 1000 < eps) /\ t < T) => pc' = "next"
       /\ (pc = "next" /\ t < T)
            => (t' = t + 1 /\ i' = 1 /\ calls' = calls
                /\ pc' = IF Len(chains) = 0 THEN "check" ELSE "self")]_vars

\* round 1 of 2 moved a chain by 1 < eps = 1.5, and the run returned after it
C4_Witness ==
    /\ pc = "done"
    /\ t = 1 /\ T = 2
    /\ max_delta = 1
    /\ calls.draw = Len(chains)

RECURSIVE SeqMax(_)
SeqMax(q) == IF q = <<>> THEN 0 ELSE Max(SeqMax(Tail(q)), Head(q))

\* C5: inside a round and at its convergence test, max_delta is the largest
\* |new_s - old_s| among the proposals accepted in the round so far, 0 when
\* none was accepted; rejected proposals are not in it.
C5_MovementIsMaxAccepted ==
    pc \in {"self", "mut", "ref", "gate", "check"} => max_delta = SeqMax(moves)

\* chain 1 accepted a proposal of equal score, chain 2's lower-scored proposal
\* was rejected, and the movement tested is 0
C5_Witness ==
    /\ pc = "check"
    /\ Len(chains) = 2
    /\ moves = <<0>>
    /\ new_s < chains[2].score
    /\ max_delta = 0

\* C6: the chain returned holds the maximum current score, and no chain before
\* it holds that score.
C6_ReturnsFirstMaximum ==
    pc = "done" =>
        /\ best \in 1..Len(chains)
        /\ \A j \in 1..Len(chains) : chains[j].score <= chains[best].score
        /\ \A j \in 1..(best - 1) : chains[j].score < chains[best].score

\* two chains of equal score and different texts: the first is returned
C6_Witness ==
    /\ pc = "done"
    /\ Len(chains) = 2
    /\ chains[1].score = chains[2].score
    /\ chains[1].text # chains[2].text
    /\ best = 1

\* RunParameters of the specification: numChains >= 1, maxRounds >= 0,
\* beta > 0, epsilon >= 0, roles of length numChains when given
InvalidParameters ==
    \/ m < 1
    \/ T < 0
    \/ beta <= 0
    \/ eps < 0
    \/ roles.given /\ Len(roles.list) # m

OracleCalls == calls.gen + calls.self + calls.mut + calls.ref + calls.score

\* C7: a run with invalid parameters makes no generation, critique, refinement
\* or scoring call and returns no chain.
C7_InvalidParametersMakeNoCall ==
    InvalidParameters => (OracleCalls = 0 /\ pc # "done")

\* C8: once an LLM call has failed, in round 0 or inside a later round, the run
\* has ended with that error and has returned no chain.
C8_FailureAborts ==
    err = "RetryError" => (pc = "error" /\ best = 0)

\* the refinement call of chain 2 in round 2 failed, after a round that
\* replaced a chain
C8_Witness ==
    /\ err = "RetryError"
    /\ t = 2 /\ i = 2
    /\ calls.ref = calls.draw + 1
    /\ calls.draw = 3
    /\ pc = "error"

\* C9: with T = 0 the run makes one generation and one scoring per chain and
\* nothing else, and returns the first maximum of the round-0 chains.
C9_ZeroRounds ==
    T = 0 =>
        /\ calls.self = 0 /\ calls.mut = 0 /\ calls.ref = 0 /\ calls.draw = 0
        /\ t = 0
        /\ calls.score = Len(chains)
        /\ calls.gen <= Len(EffRoles(roles, m))
        /\ pc = "done" =>
            /\ calls.gen = Len(chains)
            /\ Len(chains) = Len(EffRoles(roles, m))
            /\ \A j \in 1..Len(chains) : chains[j].score <= chains[best].score
            /\ \A j \in 1..(best - 1) : chains[j].score < chains[best].score

\* T = 0, two chains generated, the second one better: it is returned
C9_Witness ==
    /\ T = 0
    /\ pc = "done"
    /\ Len(chains) = 2
    /\ best = 2

\* C10: two runs with the same arguments, the same oracle answers and the same
\* draws are, after the same number of steps, at the same place with the same
\* chains, the same accepted moves, the same draws consumed, the same round
\* number and the same returned chain.
C10_EqualRunsAgree ==
    twin.mode = "lead" =>
        /\ twin.other.pc = pc
        /\ twin.other.chains = chains
        /\ twin.other.moves = moves
        /\ twin.other.calls = calls
        /\ twin.other.t = t
        /\ twin.other.best = best
        /\ twin.other.err = err
        /\ twin.other.converged = converged

\* both runs have returned after two rounds, the second of which accepted one
\* proposal and rejected the other
C10_Witness ==
    /\ twin.mode = "lead"
    /\ pc = "done" /\ twin.other.pc = "done"
    /\ t = 2
    /\ Len(chains) = 2
    /\ Len(moves) = 1
    /\ best = 2

\* the proposals decided so far in round t were all accepted
AllAcceptedSoFar ==
    /\ pc \in {"self", "mut", "ref", "gate"} => Len(moves) = i - 1
    /\ (t >= 1 /\ pc \in {"check", "next", "select", "done"}) => Len(moves) = Len(chains)

\* C11: when every proposal scores like the chain it revises, eps > 0 and
\* T >= 1, the run has exactly one round, every proposal of that round is
\* accepted and replaces its chain, and the loop is left by the break after
\* round 1.
C11_SameScoreOneRound ==
    /\ t <= 1
    /\ pc \notin {"init", "error"} => t = 1
    /\ AllAcceptedSoFar
    /\ (pc = "self" /\ i > 1) => chains[i - 1].text = prop
    /\ (pc = "check" /\ Len(chains) > 0) => chains[i].text = prop
    /\ pc # "next"
    /\ pc \in {"select", "done"} =>
           (converged /\ calls.ref = Len(chains) /\ calls.draw = Len(chains))

\* a run of two chains has returned after one round in which both chains
\* took another text
C11_Witness ==
    /\ pc = "done"
    /\ t = 1
    /\ T = 2
    /\ converged
    /\ Len(chains) = 2
    /\ moves = <<0, 0>>
    /\ chains[1].text = <<"a">>
    /\ chains[2].text = <<"b">>

\* C12: two chains, T = TrimRounds, beta = 1.0, eps = 0.01 and a refinement
\* that drops one character: every proposal has dS = +1 and is accepted, no
\* round's test passes, the run has exactly TrimRounds rounds and returns the
\* shortest chain, the first one when both are as short.
C12_TrimRunsAllRounds ==
    /\ Len(chains) <= 2
    /\ pc = "gate" => new_s - chains[i].score = 1
    /\ AllAcceptedSoFar \/ pc = "error"
    /\ \A k \in 1..Len(moves) : moves[k] = 1
    /\ ~converged
    /\ pc \in {"check", "next"} => max_delta = 1
    /\ pc \in {"select", "done"} => (t = TrimRounds /\ Len(chains) = 2)
    /\ pc = "done" =>
           /\ \A k \in 1..2 : Len(chains[best].text) <= Len(chains[k].text)
           /\ \A k \in 1..(best - 1) : Len(chains[k].text) > Len(chains[best].text)
           /\ calls.draw = 2 * TrimRounds

\* the run has returned its first chain, which is as short as its second
C12_Witness ==
    /\ pc = "done"
    /\ t = TrimRounds
    /\ best = 1
    /\ Len(chains[1].text) = Len(chains[2].text)
    /\ Len(chains[1].text) >= 1

\* C13: in a run with beta = 0 every proposal is accepted, whatever its score
\* and whatever the draw: no decision of a round leaves its chain as it was,
\* and each chain holds the proposal made for it (text and score).
C13_BetaZeroAcceptsAll ==
    beta = 0 =>
        /\ AllAcceptedSoFar
        /\ (pc = "self" /\ i > 1) => chains[i - 1] = [text |-> prop, score |-> -Len(prop)]
        /\ (pc = "check" /\ Len(chains) > 0) =>
               chains[i] = [text |-> prop, score |-> -Len(prop)]
        /\ err # "OverflowError"

\* with beta = 0, both chains have taken a proposal of a lower score in the
\* second round
C13_Witness ==
    /\ beta = 0
    /\ pc = "check"
    /\ t = 2
    /\ Len(chains) = 2
    /\ moves = <<1, 1>>
    /\ chains[1].score = -1
    /\ chains[2].score = -1

\* a step of the leading run that decides a proposal, with the draw it read
DecidedWith(u) ==
    /\ twin.mode = "lead"
    /\ pc = "gate"
    /\ pc' # "error"
    /\ twin'.mode = "led"
    /\ twin'.u = u

C15_PeersAreCurrentOthers ==
    /\ pc \in {"self", "mut", "ref", "gate"} =>
           /\ i \in 1..Len(chains)
           /\ calls.draw = (t - 1) * Len(chains) + (i - 1)
    /\ pc \in {"mut", "ref", "gate"} =>
           /\ Len(peers) = Len(chains) - 1
           /\ \A j \in 1..(i - 1) : peers[j] = chains[j].text
           /\ \A j \in (i + 1)..Len(chains) : peers[j - 1] = chains[j].text

\* the second chain is given the text the first chain took in this round,
\* which is not the text the second chain holds
C15_Witness ==
    /\ pc = "ref"
    /\ i = 2
    /\ moves = <<1>>
    /\ peers = <<chains[1].text>>
    /\ chains[1].text = prop
    /\ chains[2].text # chains[1].text

\* C16: the round number only ever grows by one; it grows only at the for
\* statement, and after round 1 only once every chain of the round has been
\* decided and the round's test has been evaluated and failed; every LLM
\* call, scoring, draw and chain write after round 0 is made inside a round
\* and leaves the round number as it is.
C16_RoundsInOrder ==
    [][/\ t' \in {t, t + 1}
       /\ t' = t + 1 =>
              /\ pc \in {"init", "next"}
              /\ pc = "init" => t = 0
              /\ pc = "next" => (t >= 1 /\ ~Settled(max_delta, eps))
              /\ calls.draw = t * Len(chains)
              /\ calls.ref = t * Len(chains)
              /\ t < T
       /\ ((calls' # calls \/ chains' # chains) /\ pc # "init") =>
              /\ t' = t
              /\ t >= 1
              /\ pc \in {"self", "mut", "ref", "gate"}
              /\ calls.draw >= (t - 1) * Len(chains)
              /\ calls'.draw <= t * Len(chains)]_vars

\* the second round has begun for two chains, after both were decided in
\* the first
C16_Witness ==
    /\ t = 2
    /\ pc = "self"
    /\ i = 1
    /\ Len(chains) = 2
    /\ calls.draw = 2

\* C17 as stated: once round 0 is over there are exactly m chains, whatever
\* m and the roles argument are, each with a text and the score of that text,
\* and round 0 has consumed no draw.
C17_ChainCountIsM ==
    /\ pc \notin {"init", "error"} =>
           /\ Len(chains) = m
           /\ \A k \in 1..Len(chains) : chains[k].score = -Len(chains[k].text)
    /\ t = 0 => calls.draw = 0

\* C18: every decision of the gate consumes one draw, a decision with
\* dS >= 0 too: while a run has not failed, the draws consumed are the
\* proposals decided, and when it returns they are the number of chains
\* times the number of rounds executed.
C18_OneDrawPerDecision ==
    pc # "error" =>
        /\ calls.draw = calls.ref - (IF pc = "gate" THEN 1 ELSE 0)
        /\ pc \in {"self", "mut", "ref", "gate"} =>
               calls.draw = (t - 1) * Len(chains) + (i - 1)
        /\ pc \in {"check", "next", "select", "done"} => calls.draw = Len(chains) * t

\* a run of two chains has returned after two rounds in which no proposal
\* scored less than its chain
C18_Witness ==
    /\ pc = "done"
    /\ t = 2
    /\ Len(chains) = 2
    /\ calls.draw = 4
    /\ \A k \in 1..2 : chains[k].score = 0

\* C19: a decision of the gate that accepts leaves the chain with the
\* proposal as its text and score() of the proposal as its score, and the
\* movement tracker at the larger of its value and |dS|; a decision that
\* rejects leaves every chain and the movement tracker as they were.  Every
\* other chain is left as it was in both cases.
C19_AcceptReplacesRejectKeeps ==
    [][\A u \in Draws :
          DecidedWith(u) =>
              /\ \A k \in 1..Len(chains) : k # i => chains'[k] = chains[k]
              /\ Len(chains') = Len(chains)
              /\ IF u > Alpha(chains[i].score, new_s, beta)
                 THEN /\ chains'[i] = [text |-> prop, score |-> -Len(prop)]
                      /\ max_delta' =
                             Max(max_delta, Abs(-Len(prop) - chains[i].score))
                 ELSE /\ chains'[i] = chains[i]
                      /\ max_delta' = max_delta]_vars

\* the leading run has accepted a proposal of a lower score, at the draw
\* 2^-53 with beta = 1.0, and the movement tracker has grown to 1
C19_Witness ==
    /\ twin.mode = "led"
    /\ twin.u = 36737
    /\ beta = 1000
    /\ pc = "check"
    /\ calls.draw = 1
    /\ chains[1] = [text |-> prop, score |-> -1]
    /\ max_delta = 1

\* C20 as stated: what a run returns holds the best text, the best score,
\* the number of rounds executed and the converged flag.
C20_ReturnsRoundsAndConverged ==
    pc = "done" =>
        /\ {"text", "score", "roundsExecuted", "converged"} \subseteq DOMAIN Returned
        /\ Returned.text = chains[best].text
        /\ Returned.score = chains[best].score
        /\ Returned.roundsExecuted = t
        /\ Returned.converged = converged

\* every attempt of the call so far, but the last one if it is given, failed
FailedUpTo(n) == \A k \in 1..n : call.tries[k] \in Failures

\* C21: a call of call_llm makes at most 6 attempts; while it is still
\* attempting, fewer than 6 were made and all failed; it returns the text of
\* its first successful attempt and attempts no more; it fails only after a
\* 6th failed attempt, with the error tenacity raises to the caller.
C21_AtMostSixAttempts ==
    /\ Len(call.tries) <= 6
    /\ call.pc = "attempt" => (Len(call.tries) < 6 /\ FailedUpTo(Len(call.tries)))
    /\ call.pc = "returned" =>
           /\ call.tries[Len(call.tries)] = "ok"
           /\ FailedUpTo(Len(call.tries) - 1)
           /\ call.err = None
    /\ call.pc = "raised" =>
           /\ Len(call.tries) = 6
           /\ FailedUpTo(6)
           /\ call.err = "RetryError"

\* the call has returned at its 6th attempt, after five failures
C21_Witness ==
    /\ call.pc = "returned"
    /\ Len(call.tries) = 6
    /\ call.tries[5] = "Transient"

\* C22 as stated: an attempt that fails with a Permanent error is the last
\* attempt of its call, and the call fails; a Transient failure is retried.
C22_PermanentNotRetried ==
    \A k \in 1..Len(call.tries) :
        /\ call.tries[k] = "Permanent" => (k = Len(call.tries) /\ call.pc = "raised")
        /\ (call.tries[k] = "Transient" /\ k < 6) =>
               (k < Len(call.tries) \/ call.pc = "attempt")

\* C23: once round 0 is over the number of chains stays what it is, and a
\* step changes the text or score of a chain only if it is the gate's
\* decision for that very chain: every other chain is after the step what it
\* was before it.
C23_OnlyChainIsWritten ==
    [][pc # "init" =>
          /\ Len(chains') = Len(chains)
          /\ \A k \in 1..Len(chains) :
                 chains'[k] # chains[k] => (pc = "gate" /\ k = i)]_vars

\* the second of two chains has taken a proposal of another score while the
\* first, rejected in the same round, holds the text it had
C23_Witness ==
    /\ pc = "check"
    /\ Len(chains) = 2
    /\ moves = <<1>>
    /\ chains[2].text = prop
    /\ chains[1].text # prop

\* C24: a run whose LLM calls all return ends, by a return or by an
\* exception of its own; it has at most T rounds; and in a round each chain
\* gets one self-critique, one mutual critique, one proposal, one scoring and
\* one decision, so that a finished round t leaves t of each per chain.
C24_TerminatesOncePerChain ==
    /\ <>(pc \in {"done", "error"})
    /\ [](/\ t <= Max(0, T)
          /\ pc \in {"check", "next", "select", "done"} =>
                 /\ calls.self = t * Len(chains)
                 /\ calls.mut = t * Len(chains)
                 /\ calls.ref = t * Len(chains)
                 /\ calls.score = Len(chains) + t * Len(chains)
                 /\ calls.draw = t * Len(chains)
          /\ pc = "gate" =>
                 /\ calls.ref = (t - 1) * Len(chains) + i
                 /\ calls.draw = (t - 1) * Len(chains) + i - 1)

\* a run of two chains has returned after T = 2 rounds
C24_Witness ==
    /\ pc = "done"
    /\ T = 2
    /\ t = 2
    /\ ~converged
    /\ Len(chains) = 2
    /\ calls.ref = 4

\* C25: the score returned is the largest of the scores the chains hold when
\* the loop is left; a score a chain held earlier and lost to an accepted
\* proposal plays no part (the witness is such a run).
C25_ReturnsMaxOfFinalScores ==
    pc = "done" =>
        /\ best \in 1..Len(chains)
        /\ \A k \in 1..Len(chains) : Returned.score >= chains[k].score

\* beta = 1.0: the only chain has taken a proposal whose score differs by 1
\* from its own and is returned with score -1; no text is longer than one
\* character, so the chain held the score 0 before, which is higher
C25_Witness ==
    /\ pc = "done"
    /\ beta = 1000
    /\ t = 1
    /\ Len(chains) = 1
    /\ moves = <<1>>
    /\ Returned.score = -1
    /\ \A x \in Texts : Len(x) <= 1

\* C26: a round in which no proposal was accepted ends with movement 0, and
\* with eps > 0 the loop is left after it as converged, whatever the scores
\* of the rejected proposals and however many rounds are left: the loop goes
\* on to another round only after a round that accepted something.
C26_AllRejectedConverges ==
    /\ (pc \in {"check", "next"} /\ moves = <<>>) => max_delta = 0
    /\ (pc = "next" /\ eps > 0) => moves # <<>>
    /\ (pc = "select" /\ t >= 1 /\ moves = <<>> /\ eps > 0) => converged

\* eps = 0.001 and T = 2: both chains were refused a proposal one character
\* longer in round 1, and the loop has been left as converged
C26_Witness ==
    /\ pc = "select"
    /\ converged
    /\ eps = 1
    /\ T = 2
    /\ t = 1
    /\ Len(chains) = 2
    /\ calls.draw = 2
    /\ moves = <<>>
    /\ new_s = chains[2].score - 1

\* C27: with eps = 0 the test of a round never passes: the loop is never
\* left by the break and a run with T >= 0 ends with exactly T rounds made,
\* a round whose movement is 0 included.
C27_EpsZeroRunsAllRounds ==
    eps = 0 =>
        /\ ~converged
        /\ pc = "check" => ~Settled(max_delta, eps)
        /\ (pc \in {"select", "done"} /\ T >= 0) => t = T

\* eps = 0: a run has returned after T = 2 rounds, the second of which
\* accepted two proposals of unchanged score
C27_Witness ==
    /\ eps = 0
    /\ pc = "done"
    /\ T = 2
    /\ t = 2
    /\ moves = <<0, 0>>

\* the LLM calls of the run: call_llm is called by nothing but generation,
\* self-critique, mutual critique and refinement
LLMCalls == calls.gen + calls.self + calls.mut + calls.ref

\* C28 as stated: a returned run of n chains and r rounds has made n + 3nr
\* LLM calls, and the api_calls solve reports for it, m + 3mT, is not below
\* that number and is that number exactly when the loop ran all T rounds.
C28_ApiCallsBoundsCalls ==
    (pc = "done" /\ CalledBySolve) =>
        /\ LLMCalls = Len(chains) + 3 * Len(chains) * t
        /\ calls.self = calls.mut /\ calls.mut = calls.ref
        /\ ApiCalls >= LLMCalls
        /\ (ApiCalls = LLMCalls) <=> (t = T)

\* the pairs of a sequence that did not fail, in the sequence's order
RECURSIVE Succeeded(_)
Succeeded(ps) ==
    IF ps = <<>> THEN <<>>
    ELSE LET rest == Succeeded(SubSeq(ps, 1, Len(ps) - 1))
             last == ps[Len(ps)]
         IN  IF last \in cmp.failed THEN rest ELSE Append(rest, last)

\* C29: an exception of one evaluation never leaves run_comparison; the
\* pairs evaluated so far are the first pairs in question-major, then
\* technique order; results holds one entry for each of them that succeeded,
\* in that order, and none for one that failed; and the report is made when
\* every pair has been evaluated, with exactly those results.
C29_FailedPairIsSkipped ==
    /\ cmp.pc \in {"idle", "loop", "returned"}
    /\ cmp.pc # "idle" =>
           /\ Len(cmp.tried) <= cmp.nq * cmp.nt
           /\ cmp.tried = SubSeq(AllPairs(cmp.nq, cmp.nt), 1, Len(cmp.tried))
           /\ cmp.results = Succeeded(cmp.tried)
           /\ \A a, b \in 1..Len(cmp.results) : a # b => cmp.results[a] # cmp.results[b]
    /\ cmp.pc = "returned" =>
           /\ cmp.tried = AllPairs(cmp.nq, cmp.nt)
           /\ cmp.report = cmp.results

\* two questions and two techniques: the first pair failed, the three that
\* follow succeeded and are the report's results
C29_Witness ==
    /\ cmp.pc = "returned"
    /\ cmp.failed = {<<1, 1>>}
    /\ cmp.report = << <<1, 2>>, <<2, 1>>, <<2, 2>> >>

\* what a call makes of the list l for n paths when it begins with l
RECURSIVE Padded(_, _)
Padded(l, n) == IF Len(l) >= n THEN l ELSE Padded(Append(l, -(Len(l) + 1)), n)

\* C30 as stated: the list the caller passed is, during and after every
\* call, the list it was before the first call, and each call builds its
\* prompt from the roles the caller passed, padded or cut to num_paths.
C30_CallerListUnchanged ==
    (r2r.pc # "idle" /\ r2r.given) =>
        /\ r2r.caller = r2r.passed
        /\ r2r.pc = "returned" =>
               r2r.roles = Slice(Padded(r2r.passed, r2r.num_paths), r2r.num_paths)
====
